---- MODULE Spec2Model ----
(***************************************************************************)
(* A model of egui-directx10: the texture pool (src/texture.rs) and the    *)
(* frame renderer with its pipeline state block (src/lib.rs).              *)
(*                                                                         *)
(* Floating point values are kept exact: a coverage value is the rational  *)
(* <<n, d>>, and every value used is a small dyadic number, for which the  *)
(* f32 product with 255 is exact.                                          *)
(***************************************************************************)
EXTENDS Integers, Sequences, FiniteSets, TLC

VARIABLES
    restore_state_after_render, \* Renderer::restore_state_after_render
    state_block,                \* Renderer::state_block : Option<StateBlock>
    pool,                       \* TexturePool::pool : HashMap<TextureId, Texture>
    dev,                        \* pipeline bindings of the caller's ID3D10Device
    pc,                         \* position of the caller: "Idle", "Returned", "Panicked"
    call                        \* what the caller observed of the call that just returned

vars == <<restore_state_after_render, state_block, pool, dev, pc, call>>

----------------------------------------------------------------------------
(* Bounds *)

MaxUpserts == 2     \* entries of TexturesDelta::set in one delta
MaxShapes == 2      \* entries of RendererOutput::shapes in one frame

----------------------------------------------------------------------------
(* Values *)

\* An interface pointer: what kind of object it is and which one.
Obj(kind, ref) == [kind |-> kind, ref |-> ref]

\* a null interface pointer (None of an Option<interface>)
NULL == Obj("null", 0)

TextureIds == {"T1", "T2"}

\* Option: None, Some(x), Option::unwrap
None == <<>>
Some(x) == <<x>>
unwrap(o) == o[1]

\* the value of the one element of S
Only(S) == CHOOSE x \in S : TRUE

Min(a, b) == IF a < b THEN a ELSE b

\* `x as u8` for the f32 value n/d: truncation toward zero, saturating
F32AsU8Mutant(n, d) ==
    LET q == (2 * n + d) \div (2 * d)
    IN  IF n < 0 THEN 0 ELSE IF q > 255 THEN 255 ELSE q

F32AsU8(n, d) ==
    LET q == n \div d
    IN  IF n < 0 THEN 0 ELSE IF q > 255 THEN 255 ELSE q

\* Color32::from_rgba_premultiplied
from_rgba_premultiplied(r, g, b, a) == <<r, g, b, a>>

\* the pixel both create_texture and update_partial make of a coverage a
FontPixel(a) == from_rgba_premultiplied(255, 255, 255, F32AsU8(a[1] * 255, a[2]))

\* ImageData::Font / ImageData::Color; pixels are row-major, size is [w, h]
FontImage(w, h, px) == [kind |-> "Font", size |-> <<w, h>>, pixels |-> px]
ColorImage(w, h, px) == [kind |-> "Color", size |-> <<w, h>>, pixels |-> px]

width(image) == image.size[1]
height(image) == image.size[2]

\* ImageDelta::is_whole
is_whole(delta) == delta.pos = None

----------------------------------------------------------------------------
(* The device context as the renderer drives it: the pipeline bindings and *)
(* the list of API calls issued so far in the current call of the          *)
(* renderer.  fault names the one API call the driver fails, if any: the   *)
(* first failure ends the call, so one is all a call can meet.             *)

NoFault == [api |-> "none", n |-> 0]

Count(log, name) == Cardinality({i \in 1..Len(log) : log[i] = name})

\* an API call that changes no binding
Issue(cx, name) == [cx EXCEPT !.log = Append(@, name)]

\* does the call of `name` about to be issued on cx fail?
Fails(cx, name, fault) == fault.api = name /\ Count(cx.log, name) + 1 = fault.n

\* an API call that writes the bindings named in upd
Bind(cx, name, upd) ==
    [dev |-> [f \in DOMAIN cx.dev |-> IF f \in DOMAIN upd THEN upd[f] ELSE cx.dev[f]],
     log |-> Append(cx.log, name)]

----------------------------------------------------------------------------
(* TexturePool  (src/texture.rs) *)

\* The textures the device still holds: those of the pool and the one whose
\* view is bound to pixel shader slot 0 (a bound view keeps its texture alive).
LiveTextures(p, d) ==
    {p[t].tex.ref : t \in DOMAIN p}
        \cup (IF d.ps_shader_resource.kind = "srv" THEN {d.ps_shader_resource.ref} ELSE {})

\* the handle of a newly created texture: one no live texture has
NewTexture(live) == CHOOSE h \in 0..Cardinality(live) : h \notin live

\* TexturePool::get_srv
get_srv(p, tid) == IF tid \in DOMAIN p THEN p[tid].srv ELSE NULL

\* the pixels create_texture caches for an image
TexturePixels(data) ==
    IF data.kind = "Color"
    THEN data.pixels
    ELSE [i \in 1..Len(data.pixels) |-> FontPixel(data.pixels[i])]

\* TexturePool::create_texture.  The texture keeps, besides the fields of
\* struct Texture, what the device holds of it: the usage it was created with
\* and its texels (gpu), row by row, which CreateTexture2D fills from pSysMem
\* with a pitch of one row of the image.
create_texture(cx, live, data, fault) ==
    LET h == NewTexture(live)
        c1 == Issue(cx, "CreateTexture2D")
        c2 == Issue(c1, "CreateShaderResourceView")
    IN  IF Fails(cx, "CreateTexture2D", fault)
        THEN [result |-> "Err", cx |-> c1, tex |-> NULL]
        ELSE IF Fails(c1, "CreateShaderResourceView", fault)
        THEN [result |-> "Err", cx |-> c2, tex |-> NULL]
        ELSE [result |-> "Ok", cx |-> c2,
              tex |-> [tex |-> Obj("tex", h), srv |-> Obj("srv", h),
                       width |-> width(data), pixels |-> TexturePixels(data),
                       usage |-> "D3D10_USAGE_DYNAMIC",
                       gpu |-> TexturePixels(data)]]

\* index of pixel (nx + x, ny + y) in the cached pixels of a texture old_width wide
WholeIndexMutant(old_width, f_width, nx, ny, x, y) == (ny + y) * f_width + nx + x

WholeIndex(old_width, f_width, nx, ny, x, y) == (ny + y) * old_width + nx + x

\* The loop of update_partial over the sub-image f, row by row; k counts the
\* pixels of f already done.  st = [pixels, update_data, panic]: update_data is
\* kept in pixels of 4 bytes, so byte offset y * row_pitch + x * 4 is entry
\* y * old_width + x.  Indexing past the end of either vector panics.
RECURSIVE PartialLoop(_, _, _, _, _, _)
PartialLoop(st, old_width, f, nx, ny, k) ==
    IF k = width(f) * height(f) THEN st
    ELSE
        LET y == k \div width(f)
            x == k % width(f)
            frac == y * width(f) + x
            whole == WholeIndex(old_width, width(f), nx, ny, x, y)
            dst == y * old_width + x
            new_color == FontPixel(f.pixels[frac + 1])
        IN  IF whole >= Len(st.pixels)
            THEN [st EXCEPT !.panic = TRUE]
            ELSE IF dst >= Len(st.update_data)
            THEN [st EXCEPT !.pixels[whole + 1] = new_color, !.panic = TRUE]
            ELSE PartialLoop([st EXCEPT !.pixels[whole + 1] = new_color,
                                         !.update_data[dst + 1] = new_color],
                             old_width, f, nx, ny, k + 1)

\* D3D10_BOX, front 0 and back 1
D3D10_BOX(left, top, right, bottom) ==
    [left |-> left, top |-> top, right |-> right, bottom |-> bottom]

\* the texels of texture t after the copy of the box from src, whose rows are
\* pitch pixels apart
CopyBox(t, box, src, pitch) ==
    [i \in 1..Len(t.gpu) |->
        LET x == (i - 1) % t.width
            y == (i - 1) \div t.width
        IN  IF /\ box.left <= x /\ x < box.right
               /\ box.top <= y /\ y < box.bottom
            THEN src[(y - box.top) * pitch + (x - box.left) + 1]
            ELSE t.gpu[i]]

\* ID3D10Device::UpdateSubresource as update_partial calls it.  The call
\* returns nothing.  A box that leaves the texture is not copied.  Direct3D 10
\* does not allow a texture of dynamic usage as the destination: what the
\* runtime then does is not defined by the code, it copies or it drops the
\* call, and a fault on UpdateSubresource stands for the drop.
UpdateSubresource(cx, t, box, src, pitch, fault) ==
    IF box.right > t.width \/ box.bottom > Len(t.gpu) \div t.width
    THEN t.gpu
    ELSE IF t.usage = "D3D10_USAGE_DYNAMIC" /\ Fails(cx, "UpdateSubresource", fault)
    THEN t.gpu
    ELSE CopyBox(t, box, src, pitch)

\* TexturePool::update_partial
\* the `_ => unreachable!()` arm of update_partial
NotFontMutant(cx, old) == [result |-> "Ok", cx |-> cx, tex |-> old]

NotFont(cx, old) == [result |-> "Panic", cx |-> cx, tex |-> old]

update_partial(cx, old, image, pos, fault) ==
    IF image.kind # "Font"
    THEN NotFont(cx, old)
    ELSE
        LET st == PartialLoop(
                    [pixels |-> old.pixels,
                     update_data |-> [i \in 1..(height(image) * old.width) |-> <<0, 0, 0, 0>>],
                     panic |-> FALSE],
                    old.width, image, pos[1], pos[2], 0)
            new == [old EXCEPT !.pixels = st.pixels]
            subresource_data == D3D10_BOX(pos[1], pos[2],
                                          pos[1] + width(image), pos[2] + height(image))
        IN  IF st.panic
            THEN [result |-> "Panic", cx |-> cx, tex |-> new]
            ELSE [result |-> "Ok", cx |-> Issue(cx, "UpdateSubresource"),
                  tex |-> [new EXCEPT !.gpu = UpdateSubresource(cx, old, subresource_data,
                                                                st.update_data, old.width, fault)]]

\* HashMap::insert / HashMap::remove
InsertMutant(p, tid, tex) == [t \in {tid} |-> tex]

Insert(p, tid, tex) == [t \in DOMAIN p \cup {tid} |-> IF t = tid THEN tex ELSE p[t]]

RemoveMutant(p, tid) == p

Remove(p, tid) == [t \in DOMAIN p \ {tid} |-> p[t]]

\* what one step of TexturePool::update ends with; made lists the textures
\* it created
Step(result, cx, p, made) == [result |-> result, cx |-> cx, pool |-> p, made |-> made]

\* a whole update: the texture create_texture returned as r replaces the entry
InsertWholeMutant(p, tid, r) ==
    IF r.result # "Ok" THEN Step(r.result, r.cx, p, <<>>)
    ELSE Step("Ok", r.cx, IF tid \in DOMAIN p THEN p ELSE Insert(p, tid, r.tex), <<r.tex.tex>>)

InsertFailedMutant(p, tid, r) ==
    IF r.result # "Ok" THEN Step(r.result, r.cx, Remove(p, tid), <<>>)
    ELSE Step("Ok", r.cx, Insert(p, tid, r.tex), <<r.tex.tex>>)

InsertWhole(p, tid, r) ==
    IF r.result # "Ok" THEN Step(r.result, r.cx, p, <<>>)
    ELSE Step("Ok", r.cx, Insert(p, tid, r.tex), <<r.tex.tex>>)

\* a partial update of an id the pool does not hold: a warning, and no more
IgnoreUnknownMutant(p, cx) == Step("Err", cx, p, <<>>)

IgnoreUnknown(p, cx) == Step("Ok", cx, p, <<>>)

\* the body of the `for (tid, delta) in delta.set` loop of TexturePool::update
Upsert(p, cx, tid, delta, fault) ==
    IF is_whole(delta)
    THEN Only({InsertWhole(p, tid, r) :
                r \in {create_texture(cx, LiveTextures(p, cx.dev), delta.image, fault)}})
    ELSE IF tid \in DOMAIN p
    THEN Only({Step(r.result, r.cx, Insert(p, tid, r.tex), <<>>) :
                r \in {update_partial(cx, p[tid], delta.image, unwrap(delta.pos), fault)}})
    ELSE IgnoreUnknown(p, cx)

\* the `for (tid, delta) in delta.set` loop of TexturePool::update, from entry
\* i: the first step that fails ends it
RECURSIVE UpdateSet(_, _, _, _, _, _)
UpdateSet(p, cx, set, i, fault, made) ==
    IF i > Len(set) THEN Step("Ok", cx, p, made)
    ELSE Only({IF r.result # "Ok"
               THEN Step(r.result, r.cx, r.pool, made \o r.made)
               ELSE UpdateSet(r.pool, r.cx, set, i + 1, fault, made \o r.made) :
                 r \in {Upsert(p, cx, set[i].id, set[i].delta, fault)}})

\* the `for tid in delta.free` loop of TexturePool::update, from entry i
RECURSIVE UpdateFree(_, _, _)
UpdateFree(p, free, i) ==
    IF i > Len(free) THEN p ELSE UpdateFree(Remove(p, free[i]), free, i + 1)

\* the frees of TexturePool::update, which follow a set loop that ended as r
FreeAfterMutant(r, free) == r

FreeAfter(r, free) ==
    IF r.result # "Ok" THEN r
    ELSE [r EXCEPT !.pool = UpdateFree(r.pool, free, 1)]

\* TexturePool::update
updateMutant(p, cx, delta, fault) ==
    Only({UpdateSet(IF r.result = "Ok" THEN r.pool ELSE p, cx, delta.set, 1, fault, <<>>) :
            r \in {FreeAfter(Step("Ok", cx, p, <<>>), delta.free)}})

update(p, cx, delta, fault) ==
    Only({FreeAfter(r, delta.free) : r \in {UpdateSet(p, cx, delta.set, 1, fault, <<>>)}})

----------------------------------------------------------------------------
(* The pipeline bindings of an ID3D10Device *)

NumSamplerSlots == 16
NumRenderTargets == 8
StencilRef == 2

\* D3D10_PRIMITIVE_TOPOLOGY_UNDEFINED / _TRIANGLELIST / _TRIANGLESTRIP
D3D10_PRIMITIVE_TOPOLOGY_TRIANGLELIST == 4

\* the bindings of a newly created device; a u32 mask is its <<high, low>> 16-bit halves
DefaultDevice ==
    [primitive_topology |-> 0,
     input_layout |-> NULL,
     vertex_shader |-> NULL,
     pixel_shader |-> NULL,
     rasterizer_state |-> NULL,
     viewports |-> <<>>,
     sampler_states |-> [i \in 1..NumSamplerSlots |-> NULL],
     render_targets |-> [i \in 1..NumRenderTargets |-> NULL],
     depth_stencil_view |-> NULL,
     blend_state |-> NULL,
     blend_factor |-> <<1, 1, 1, 1>>,
     sample_mask |-> <<65535, 65535>>,
     depth_stencil_state |-> NULL,
     stencil_ref |-> 0,
     vertex_buffer |-> [buffer |-> NULL, stride |-> 0, offset |-> 0],
     index_buffer |-> [buffer |-> NULL, format |-> "UNKNOWN", offset |-> 0],
     scissor_rects |-> <<>>,
     ps_shader_resource |-> NULL]

\* an object the caller created for its own rendering
Caller(n) == Obj("caller", n)

Viewport(x, y, w, h) ==
    [TopLeftX |-> x, TopLeftY |-> y, Width |-> w, Height |-> h, MinDepth |-> 0, MaxDepth |-> 1]

RECT(l, t, r, b) == [left |-> l, top |-> t, right |-> r, bottom |-> b]

\* the bindings of a caller that renders its own scene with two render
\* targets, two viewports and samplers in slots 0, 1 and 15
SceneDevice ==
    [primitive_topology |-> 5,
     input_layout |-> Caller(1),
     vertex_shader |-> Caller(2),
     pixel_shader |-> Caller(3),
     rasterizer_state |-> Caller(4),
     viewports |-> <<Viewport(0, 0, 4, 3), Viewport(4, 0, 4, 3)>>,
     sampler_states |->
        [i \in 1..NumSamplerSlots |-> IF i \in {1, 2, NumSamplerSlots} THEN Caller(10 + i) ELSE NULL],
     render_targets |->
        [i \in 1..NumRenderTargets |-> IF i \in {1, 2} THEN Caller(30 + i) ELSE NULL],
     depth_stencil_view |-> Caller(5),
     blend_state |-> Caller(6),
     blend_factor |-> <<1, 0, 1, 0>>,
     sample_mask |-> <<0, 255>>,
     depth_stencil_state |-> Caller(7),
     stencil_ref |-> 1,
     vertex_buffer |-> [buffer |-> Caller(8), stride |-> 12, offset |-> 0],
     index_buffer |-> [buffer |-> Caller(9), format |-> "R16_UINT", offset |-> 0],
     scissor_rects |-> <<RECT(0, 0, 4, 3)>>,
     ps_shader_resource |-> Caller(40)]

\* the pipeline states a caller leaves on the device before it calls render
CallerStates == {DefaultDevice, SceneDevice}

----------------------------------------------------------------------------
(* StateBlock  (src/lib.rs) *)

\* the fields of the device a StateBlock holds
StateBlockFields ==
    {"primitive_topology", "input_layout", "vertex_shader", "pixel_shader",
     "rasterizer_state", "viewports", "sampler_states", "render_targets",
     "depth_stencil_view", "blend_state", "blend_factor", "sample_mask",
     "depth_stencil_state", "stencil_ref"}

\* what StateBlock::new reads of the device into field f
CapturedMutant(d, f) == IF f = "sampler_states" THEN [i \in 1..NumSamplerSlots |-> NULL] ELSE d[f]

Captured(d, f) == d[f]

\* StateBlock::new: the Get calls, in order, and the block they fill
StateBlockNew(cx) ==
    LET gets == <<"IAGetPrimitiveTopology", "IAGetInputLayout", "VSGetShader",
                  "PSGetShader", "RSGetState", "RSGetViewports", "RSGetViewports",
                  "PSGetSamplers", "OMGetRenderTargets", "OMGetBlendState",
                  "OMGetDepthStencilState">>
    IN  [cx |-> [cx EXCEPT !.log = @ \o gets],
         block |-> Some([f \in StateBlockFields |-> Captured(cx.dev, f)])]

\* StateBlock::apply: the Set calls, in order
StateBlockApply(block, cx) ==
    LET c1 == Bind(cx, "IASetPrimitiveTopology", [primitive_topology |-> block.primitive_topology])
        c2 == Bind(c1, "IASetInputLayout", [input_layout |-> block.input_layout])
        c3 == Bind(c2, "VSSetShader", [vertex_shader |-> block.vertex_shader])
        c4 == Bind(c3, "PSSetShader", [pixel_shader |-> block.pixel_shader])
        c5 == Bind(c4, "RSSetState", [rasterizer_state |-> block.rasterizer_state])
        c6 == Bind(c5, "RSSetViewports", [viewports |-> block.viewports])
        c7 == Bind(c6, "PSSetSamplers", [sampler_states |-> block.sampler_states])
        c8 == Bind(c7, "OMSetRenderTargets",
                   [render_targets |-> block.render_targets,
                    depth_stencil_view |-> block.depth_stencil_view])
        c9 == Bind(c8, "OMSetBlendState",
                   [blend_state |-> block.blend_state,
                    blend_factor |-> block.blend_factor,
                    sample_mask |-> block.sample_mask])
    IN  Bind(c9, "OMSetDepthStencilState",
             [depth_stencil_state |-> block.depth_stencil_state,
              stencil_ref |-> block.stencil_ref])

----------------------------------------------------------------------------
(* Renderer  (src/lib.rs) *)

\* the pipeline objects Renderer::new creates once
Fixed(name) == Obj("Renderer", name)

\* a rational n/d times a rational
Mul(a, b) == <<a[1] * b[1], a[2] * b[2]>>

\* `x as i32` for the f32 value n/d, d > 0: truncation toward zero
F32AsI32(a) == IF a[1] >= 0 THEN a[1] \div a[2] ELSE -((-a[1]) \div a[2])

\* Renderer::RASTERIZER_DESC
RASTERIZER_DESC ==
    [FillMode |-> "D3D10_FILL_SOLID",
     CullMode |-> "D3D10_CULL_NONE",
     FrontCounterClockwise |-> TRUE,
     DepthBias |-> 0,
     DepthBiasClamp |-> 0,
     SlopeScaledDepthBias |-> 0,
     DepthClipEnable |-> TRUE,
     ScissorEnable |-> FALSE,
     MultisampleEnable |-> TRUE,
     AntialiasedLineEnable |-> TRUE]

\* the description a rasterizer state was created from, known for the state
\* Renderer::new creates
RasterizerDescOf(state) ==
    IF state = Fixed("rasterizer_state") THEN Some(RASTERIZER_DESC) ELSE None

\* Renderer::setup
setup(cx, render_target, depth_stencil_target, frame_size) ==
    LET c1 == Bind(cx, "IASetPrimitiveTopology",
                   [primitive_topology |-> D3D10_PRIMITIVE_TOPOLOGY_TRIANGLELIST])
        c2 == Bind(c1, "IASetInputLayout", [input_layout |-> Fixed("input_layout")])
        c3 == Bind(c2, "VSSetShader", [vertex_shader |-> Fixed("vertex_shader")])
        c4 == Bind(c3, "PSSetShader", [pixel_shader |-> Fixed("pixel_shader")])
        c5 == Bind(c4, "RSSetState", [rasterizer_state |-> Fixed("rasterizer_state")])
        c6 == Bind(c5, "RSSetViewports",
                   [viewports |-> <<Viewport(0, 0, frame_size[1], frame_size[2])>>])
        c7 == Bind(c6, "PSSetSamplers",
                   [sampler_states |-> [c6.dev.sampler_states EXCEPT ![1] = Fixed("sampler_state")]])
        c8 == Bind(c7, "OMSetRenderTargets",
                   [render_targets |->
                        [i \in 1..NumRenderTargets |-> IF i = 1 THEN render_target ELSE NULL],
                    depth_stencil_view |-> depth_stencil_target])
        c9 == Bind(c8, "OMSetBlendState",
                   [blend_state |-> Fixed("blend_state"),
                    blend_factor |-> <<0, 0, 0, 0>>,
                    sample_mask |-> <<65535, 65535>>])
    IN  Bind(c9, "OMSetDepthStencilState",
             [depth_stencil_state |-> Fixed("depth_stencil_state"),
              stencil_ref |-> StencilRef])

\* Renderer::create_index_buffer / Renderer::create_vertex_buffer: a buffer is
\* known by its bind flag and the data it was created from
create_index_buffer(data) == Obj("index_buffer", data)
create_vertex_buffer(data) == Obj("vertex_buffer", data)

\* the RECT draw_mesh makes of a clip rectangle
ScissorOf(clip_rect) ==
    RECT(F32AsI32(clip_rect.min[1]), F32AsI32(clip_rect.min[2]),
         F32AsI32(clip_rect.max[1]), F32AsI32(clip_rect.max[2]))

\* the texture bind of draw_mesh: skipped when the id does not resolve
BindTextureMutant(cx, srv) == Bind(cx, "PSSetShaderResources", [ps_shader_resource |-> srv])

BindTexture(cx, srv) ==
    IF srv # NULL
    THEN Bind(cx, "PSSetShaderResources", [ps_shader_resource |-> srv])
    ELSE cx

\* Renderer::draw_mesh; a draw is recorded with the bindings it was issued under
draw_mesh(cx, p, mesh, fault) ==
    LET c1 == Issue(cx, "CreateBuffer")
        c2 == Issue(c1, "CreateBuffer")
        ib == create_index_buffer(mesh.idx)
        vb == create_vertex_buffer(mesh.vtx)
        c3 == Bind(c2, "IASetVertexBuffers",
                   [vertex_buffer |-> [buffer |-> vb, stride |-> 32, offset |-> 0]])
        c4 == Bind(c3, "IASetIndexBuffer",
                   [index_buffer |-> [buffer |-> ib, format |-> "R32_UINT", offset |-> 0]])
        c5 == Bind(c4, "RSSetScissorRects", [scissor_rects |-> <<ScissorOf(mesh.clip_rect)>>])
        c6 == BindTexture(c5, get_srv(p, mesh.tex))
        c7 == Issue(c6, "DrawIndexed")
    IN  IF Fails(cx, "CreateBuffer", fault) THEN [result |-> "Err", cx |-> c1, draws |-> <<>>]
        ELSE IF Fails(c1, "CreateBuffer", fault) THEN [result |-> "Err", cx |-> c2, draws |-> <<>>]
        ELSE [result |-> "Ok", cx |-> c7,
              draws |-> <<[index_count |-> Len(mesh.idx), dev |-> c6.dev]>>]

\* egui::Context::tessellate, an external collaborator: every shape of the
\* model yields one primitive under the shape's clip rectangle
tessellate(shapes, pixels_per_point) ==
    [i \in 1..Len(shapes) |->
        [primitive |-> shapes[i].shape, clip_rect |-> shapes[i].clip_rect]]

\* the first filter_map of render: paint callbacks are dropped
IsMesh(prim) == prim.primitive.type = "Mesh"

\* the second filter_map of render: empty and incomplete meshes are dropped
KeepMeshMutant(mesh) == Len(mesh.indices) # 0

KeepMesh(mesh) == Len(mesh.indices) # 0 /\ Len(mesh.indices) % 3 = 0

\* exact rational arithmetic on <<n, d>>, d > 0
Div(a, b) == <<a[1] * b[2], a[2] * b[1]>>
Sub(a, b) == <<a[1] * b[2] - b[1] * a[2], a[2] * b[2]>>

\* the vertex position render computes
TransformPosMutant(pos, zoom_factor, frame_size_scaled) ==
    <<Sub(Div(Mul(pos[1], zoom_factor), frame_size_scaled[1]), <<1, 1>>),
      Sub(<<1, 1>>, Div(Mul(pos[2], zoom_factor), frame_size_scaled[2]))>>

TransformPos(pos, zoom_factor, frame_size_scaled) ==
    <<Sub(Mul(Div(Mul(pos[1], zoom_factor), frame_size_scaled[1]), <<2, 1>>), <<1, 1>>),
      Sub(<<1, 1>>, Mul(Div(Mul(pos[2], zoom_factor), frame_size_scaled[2]), <<2, 1>>))>>

\* `clip_rect * scale_factor * zoom_factor`
ScaleClipMutant(clip_rect, scale_factor, zoom_factor) == clip_rect

ScaleClip(clip_rect, scale_factor, zoom_factor) ==
    [min |-> <<Mul(Mul(clip_rect.min[1], scale_factor), zoom_factor),
               Mul(Mul(clip_rect.min[2], scale_factor), zoom_factor)>>,
     max |-> <<Mul(Mul(clip_rect.max[1], scale_factor), zoom_factor),
               Mul(Mul(clip_rect.max[2], scale_factor), zoom_factor)>>]

\* the MeshData render builds of a mesh that passed both filters
MeshDataOf(mesh, clip_rect, scale_factor, zoom_factor, frame_size_scaled) ==
    [vtx |-> [i \in 1..Len(mesh.vertices) |->
                [pos |-> TransformPos(mesh.vertices[i].pos, zoom_factor, frame_size_scaled),
                 uv |-> mesh.vertices[i].uv,
                 color |-> [rgba_of |-> mesh.vertices[i].color]]],
     idx |-> mesh.indices,
     tex |-> mesh.texture_id,
     clip_rect |-> ScaleClip(clip_rect, scale_factor, zoom_factor)]

\* the `for mesh in meshes` loop of render over the lazily filtered
\* primitives, from primitive i
\* the `?` on draw_mesh: its error ends the loop and is what render returns
DrawFailedMutant(r, draws) == [result |-> "Ok", cx |-> r.cx, draws |-> draws]

DrawFailed(r, draws) == [result |-> r.result, cx |-> r.cx, draws |-> draws]

RECURSIVE DrawMeshes(_, _, _, _, _, _, _)
DrawMeshes(cx, p, prims, i, fault, env, draws) ==
    IF i > Len(prims) THEN [result |-> "Ok", cx |-> cx, draws |-> draws]
    ELSE IF ~IsMesh(prims[i]) \/ ~KeepMesh(prims[i].primitive)
    THEN DrawMeshes(cx, p, prims, i + 1, fault, env, draws)
    ELSE
        LET mesh == MeshDataOf(prims[i].primitive, prims[i].clip_rect,
                               env.scale_factor, env.zoom_factor, env.frame_size_scaled)
            r == draw_mesh(cx, p, mesh, fault)
        IN  IF r.result # "Ok"
            THEN DrawFailed(r, draws)
            ELSE DrawMeshes(r.cx, p, prims, i + 1, fault, env, draws \o r.draws)

\* what render returns with, and what it leaves behind
Outcome(result, cx, p, block, draws) ==
    [result |-> result, cx |-> cx, pool |-> p, state_block |-> block, draws |-> draws]

\* the end of render: the state block, if there is one, is applied after the
\* last draw, and only when no draw failed
FinishFrame(r, p, block) ==
    IF r.result # "Ok" THEN Outcome(r.result, r.cx, p, block, r.draws)
    ELSE IF block # None
    THEN Outcome("Ok", StateBlockApply(unwrap(block), r.cx), p, block, r.draws)
    ELSE Outcome("Ok", r.cx, p, block, r.draws)

\* `if self.restore_state_after_render { self.state_block = Some(..) }`
CaptureStateMutant(self, cx) ==
    IF self.restore_state_after_render /\ self.state_block = None
    THEN StateBlockNew(cx)
    ELSE [cx |-> cx, block |-> self.state_block]

CaptureState(self, cx) ==
    IF self.restore_state_after_render
    THEN StateBlockNew(cx)
    ELSE [cx |-> cx, block |-> self.state_block]

\* Renderer::render from the capture of the state block on
RenderFrame(self, cx, p, in, fault) ==
    LET frame_size == in.render_target.size
        env == [scale_factor |-> in.scale_factor,
                zoom_factor |-> in.zoom_factor,
                frame_size_scaled |-> <<Div(<<frame_size[1], 1>>, in.scale_factor),
                                        Div(<<frame_size[2], 1>>, in.scale_factor)>>]
        prims == tessellate(in.egui_output.shapes, in.egui_output.pixels_per_point)
    IN  Only({Only({FinishFrame(r, p, sb.block) :
                r \in {DrawMeshes(setup(sb.cx, in.render_target.view,
                                        in.depth_stencil_target, frame_size),
                                  p, prims, 1, fault, env, <<>>)}}) :
            sb \in {CaptureState(self, cx)}})

\* `egui_output.shapes.is_empty()`: the early return of render
NothingToDrawMutant(shapes) == FALSE

NothingToDraw(shapes) == shapes = <<>>

\* the `?` on texture_pool.update: its error or panic ends render
UpdateFailedMutant(u) == FALSE

UpdateFailed(u) == u.result # "Ok"

\* Renderer::render after the texture delta was applied with outcome u
RenderAfterUpdate(self, u, in, fault) ==
    IF UpdateFailed(u)
    THEN Outcome(u.result, u.cx, u.pool, self.state_block, <<>>)
    ELSE IF NothingToDraw(in.egui_output.shapes)
    THEN Outcome("Ok", u.cx, u.pool, self.state_block, <<>>)
    ELSE IF Fails(u.cx, "GetResource", fault)
    THEN Outcome("Err", Issue(u.cx, "GetResource"), u.pool, self.state_block, <<>>)
    ELSE RenderFrame(self, Issue(Issue(u.cx, "GetResource"), "GetDesc"), u.pool, in, fault)

\* Renderer::render; self = [restore_state_after_render, state_block]
render(self, cx, p, in, fault) ==
    Only({RenderAfterUpdate(self, u, in, fault) :
            u \in {update(p, cx, in.egui_output.textures_delta, fault)}})

----------------------------------------------------------------------------
(* The inputs the caller and egui hand to the renderer *)

\* coverage images: 0, 1/2, 1, 1/4, 3/4, 1/8 across a 3 x 2 atlas
F32 == FontImage(3, 2, <<<<0, 1>>, <<1, 2>>, <<1, 1>>, <<1, 4>>, <<3, 4>>, <<1, 8>>>>)
F21 == FontImage(2, 1, <<<<1, 2>>, <<1, 1>>>>)
P21 == FontImage(2, 1, <<<<3, 8>>, <<7, 8>>>>)

\* RGBA images
C23 == ColorImage(2, 3, [i \in 1..6 |-> <<10 * i, i, 0, 255>>])
C11 == ColorImage(1, 1, <<<<9, 9, 9, 9>>>>)

Whole(tid, image) == [id |-> tid, delta |-> [image |-> image, pos |-> None]]
Partial(tid, image, pos) == [id |-> tid, delta |-> [image |-> image, pos |-> Some(pos)]]

\* the entries egui puts in TexturesDelta::set
Upserts ==
    {Whole("T1", F32), Whole("T1", C23), Whole("T2", F21),
     Partial("T1", P21, <<1, 1>>), Partial("T1", C11, <<0, 0>>),
     Partial("T2", P21, <<1, 1>>)}

SeqsUpTo(S, n) == UNION {[1..k -> S] : k \in 0..n}

Frees == {<<>>, <<"T1">>, <<"T2">>, <<"T1", "T2">>}

\* the texture deltas of the texture pool's specification
Deltas == {[set |-> s, free |-> f] : s \in SeqsUpTo(Upserts, MaxUpserts), f \in Frees}

Vertex(x, y, c) == [pos |-> <<<<x, 1>>, <<y, 1>>>>, uv |-> <<0, 0>>, color |-> <<c, c, c, 255>>]

Rect(x0, y0, x1, y1) == [min |-> <<x0, y0>>, max |-> <<x1, y1>>]

Mesh(vertices, indices, tid) ==
    [type |-> "Mesh", vertices |-> vertices, indices |-> indices, texture_id |-> tid]

Shape(clip_rect, shape) == [clip_rect |-> clip_rect, shape |-> shape]

\* the shapes of a frame: two triangle meshes, a mesh with an incomplete
\* triangle, an empty mesh and a paint callback
Shapes ==
    {Shape(Rect(<<0, 1>>, <<0, 1>>, <<4, 1>>, <<3, 1>>),
           Mesh(<<Vertex(0, 0, 1), Vertex(4, 3, 2)>>, <<0, 1, 0>>, "T1")),
     Shape(Rect(<<1, 2>>, <<1, 1>>, <<5, 2>>, <<7, 2>>),
           Mesh(<<Vertex(8, 6, 3)>>, <<0, 0, 0, 0, 0, 0>>, "T2")),
     Shape(Rect(<<0, 1>>, <<0, 1>>, <<1, 1>>, <<1, 1>>),
           Mesh(<<Vertex(1, 1, 4)>>, <<0, 0, 0, 0>>, "T1")),
     Shape(Rect(<<0, 1>>, <<0, 1>>, <<2, 1>>, <<2, 1>>),
           Mesh(<<>>, <<>>, "T1")),
     Shape(Rect(<<0, 1>>, <<0, 1>>, <<3, 1>>, <<3, 1>>),
           [type |-> "Callback"])}

\* the texture deltas of the renderer's specification
RenderDeltas ==
    {[set |-> <<>>, free |-> <<>>],
     [set |-> <<Whole("T1", F21)>>, free |-> <<>>],
     [set |-> <<>>, free |-> <<"T1">>]}

\* what the caller passes to render
RenderInputs ==
    {[egui_output |-> [textures_delta |-> d, shapes |-> s, pixels_per_point |-> 1],
      render_target |-> [view |-> Caller(31), size |-> <<8, 6>>],
      depth_stencil_target |-> Caller(5),
      scale_factor |-> <<3, 2>>,
      zoom_factor |-> <<1, 1>>] : d \in RenderDeltas, s \in SeqsUpTo(Shapes, MaxShapes)}

\* the number of create_texture calls a delta asks for
Wholes(delta) == Cardinality({i \in 1..Len(delta.set) : is_whole(delta.set[i].delta)})

\* the number of meshes of a frame that render keeps
Kept(shapes) ==
    Cardinality({i \in 1..Len(shapes) :
                    shapes[i].shape.type = "Mesh" /\ KeepMesh(shapes[i].shape)})

\* the failures the driver can answer a texture delta with
PoolFaults(delta) ==
    {NoFault}
        \cup {[api |-> "CreateTexture2D", n |-> k] : k \in 1..Wholes(delta)}
        \cup {[api |-> "CreateShaderResourceView", n |-> k] : k \in 1..Min(1, Wholes(delta))}

\* the failures the driver can answer a render call with
RenderFaults(in) ==
    {NoFault}
        \cup {[api |-> "CreateTexture2D", n |-> k] : k \in 1..Wholes(in.egui_output.textures_delta)}
        \cup {[api |-> "GetResource", n |-> k] : k \in 1..Min(1, Len(in.egui_output.shapes))}
        \cup {[api |-> "CreateBuffer", n |-> k] : k \in 1..(2 * Kept(in.egui_output.shapes))}

----------------------------------------------------------------------------
(* The state machine *)

NoCall == [op |-> "none"]

\* Renderer::new: an empty pool, no state block, on a device in the caller's state
Init ==
    /\ restore_state_after_render \in BOOLEAN
    /\ state_block = None
    /\ pool = <<>>
    /\ dev \in CallerStates
    /\ pc = "Idle"
    /\ call = NoCall

After(result) == IF result = "Panic" THEN "Panicked" ELSE "Returned"

\* the caller calls Renderer::render
Render(in, fault) ==
    /\ pc = "Idle"
    /\ \E r \in {render([restore_state_after_render |-> restore_state_after_render,
                        state_block |-> state_block],
                       [dev |-> dev, log |-> <<>>], pool, in, fault)} :
           /\ pool' = r.pool
           /\ dev' = r.cx.dev
           /\ state_block' = r.state_block
           /\ pc' = After(r.result)
           /\ call' = [op |-> "render", in |-> in, fault |-> fault,
                       pre_dev |-> dev, pre_pool |-> pool, pre_block |-> state_block,
                       result |-> r.result, log |-> r.cx.log, draws |-> r.draws]
    /\ UNCHANGED restore_state_after_render

\* TexturePool::update called on its own
Update(delta, fault) ==
    /\ pc = "Idle"
    /\ \E r \in {update(pool, [dev |-> dev, log |-> <<>>], delta, fault)} :
           /\ pool' = r.pool
           /\ pc' = After(r.result)
           /\ call' = [op |-> "update", delta |-> delta, fault |-> fault,
                       pre_pool |-> pool,
                       result |-> r.result, log |-> r.cx.log, made |-> r.made]
    /\ UNCHANGED <<restore_state_after_render, state_block, dev>>

\* the caller takes the result and does its own work before the next call,
\* which leaves the pipeline in state d
CallerWork(d) ==
    /\ pc = "Returned"
    /\ dev' = d
    /\ pc' = "Idle"
    /\ call' = NoCall
    /\ UNCHANGED <<restore_state_after_render, state_block, pool>>

Next ==
    \/ \E in \in RenderInputs : \E fault \in RenderFaults(in) : Render(in, fault)
    \/ \E d \in CallerStates : CallerWork(d)

Spec == Init /\ [][Next]_vars

\* the sizes of the render target, the display scale factors and the zoom
\* factors of the frames of the coordinate transform
FrameSizes == {<<8, 6>>, <<5, 3>>, <<64, 48>>}
ScaleFactors == {<<1, 1>>, <<3, 2>>, <<2, 1>>, <<5, 4>>}
ZoomFactors == {<<1, 1>>, <<2, 1>>, <<1, 2>>}

VertexAt(pos, c) == [pos |-> pos, uv |-> <<0, 0>>, color |-> <<c, c, c, 255>>]

\* one triangle with a vertex at the origin, one at the centre of the frame
\* of `size` pixels in points, one at its far corner, and a fourth vertex
FrameShape(size, scale_factor) ==
    Shape(Rect(<<0, 1>>, <<0, 1>>, <<4, 1>>, <<3, 1>>),
          Mesh(<<VertexAt(<<<<0, 1>>, <<0, 1>>>>, 1),
                 VertexAt(<<Div(Div(<<size[1], 1>>, scale_factor), <<2, 1>>),
                            Div(Div(<<size[2], 1>>, scale_factor), <<2, 1>>)>>, 2),
                 VertexAt(<<Div(<<size[1], 1>>, scale_factor),
                            Div(<<size[2], 1>>, scale_factor)>>, 3),
                 VertexAt(<<<<1, 1>>, <<5, 2>>>>, 4)>>,
               <<0, 1, 2>>, "T1"))

\* what the caller passes to render, over target sizes and factors
FrameInputs ==
    {[egui_output |-> [textures_delta |-> [set |-> <<>>, free |-> <<>>],
                       shapes |-> <<FrameShape(size, scale)>>,
                       pixels_per_point |-> 1],
      render_target |-> [view |-> Caller(31), size |-> size],
      depth_stencil_target |-> Caller(5),
      scale_factor |-> scale,
      zoom_factor |-> zoom] : size \in FrameSizes, scale \in ScaleFactors, zoom \in ZoomFactors}

\* the renderer over frames of one triangle on targets of several sizes
FrameNext ==
    \/ \E in \in FrameInputs : Render(in, NoFault)
    \/ \E d \in CallerStates : CallerWork(d)

FrameSpec == Init /\ [][FrameNext]_vars

\* the texture pool on its own: the pool of a renderer on a new device, driven
\* by texture deltas alone
PoolInit == Init /\ dev = DefaultDevice /\ ~restore_state_after_render

PoolNext ==
    \/ \E delta \in Deltas : \E fault \in PoolFaults(delta) : Update(delta, fault)
    \/ CallerWork(dev)

PoolSpec == PoolInit /\ [][PoolNext]_vars

\* the upserts of the texture uploads: coverage images and patches that lie
\* inside them
GpuUpserts ==
    {Whole("T1", F32), Whole("T2", F21),
     Partial("T1", P21, <<1, 1>>), Partial("T1", P21, <<0, 0>>),
     Partial("T2", P21, <<0, 0>>)}

GpuDeltas ==
    {[set |-> s, free |-> f] : s \in {<<>>} \cup {<<u>> : u \in GpuUpserts},
                               f \in {<<>>, <<"T1">>}}

\* what the runtime can do with the UpdateSubresource of a delta
GpuFaults(delta) ==
    {NoFault} \cup {[api |-> "UpdateSubresource", n |-> k] :
                        k \in 1..(Len(delta.set) - Wholes(delta))}

\* the texture pool under whole updates and in-bounds partial updates that
\* all succeed
GpuNext ==
    \/ \E delta \in GpuDeltas : \E fault \in GpuFaults(delta) : Update(delta, fault)
    \/ CallerWork(dev)

GpuSpec == PoolInit /\ [][GpuNext]_vars

----------------------------------------------------------------------------
(* Properties *)

Rendered == call.op = "render"
Updated == call.op = "update"

\* a render call that went past the early return and came back with success
RenderedFrame ==
    Rendered /\ call.result = "Ok" /\ call.in.egui_output.shapes # <<>>

\* the slot categories the pipeline snapshot is said to hold
SnapshotCategories ==
    {"primitive_topology", "input_layout", "vertex_shader", "pixel_shader",
     "rasterizer_state", "viewports", "sampler_states", "render_targets",
     "depth_stencil_view", "blend_state", "blend_factor", "sample_mask",
     "depth_stencil_state", "stencil_ref"}

\* C1: with state preservation enabled, after a render call that returns
\* success with a non-empty shape list every captured slot category of the
\* device has the value it had before the call, empty slots included.
C1_StatePreserved ==
    (RenderedFrame /\ restore_state_after_render)
        => \A f \in SnapshotCategories : dev[f] = call.pre_dev[f]

\* a frame with a draw, rendered over the caller's scene state, whose sampler
\* and render-target arrays have both bound and empty slots
C1_Witness ==
    /\ RenderedFrame /\ restore_state_after_render
    /\ call.pre_dev = SceneDevice
    /\ Len(call.draws) > 0

\* C2: with state preservation enabled, after a render call every binding
\* the call wrote (vertex buffer, index buffer, scissor rectangle and pixel
\* shader resource included) has its value of before the call.
C2_EveryBindingRestored ==
    (RenderedFrame /\ restore_state_after_render) => dev = call.pre_dev

\* the API calls of a texture delta, none of which binds anything
TextureCalls == {"CreateTexture2D", "CreateShaderResourceView", "UpdateSubresource"}

NoBindingCalls == \A i \in 1..Len(call.log) : call.log[i] \in TextureCalls

EmptyFrame == Rendered /\ call.in.egui_output.shapes = <<>>

\* C3 as stated: a render call with an empty shape list returns success,
\* issues no binding call and leaves the bindings as they were.
C3_EmptyFrameSucceeds ==
    EmptyFrame => (call.result = "Ok" /\ NoBindingCalls /\ dev = call.pre_dev)

\* C3: a render call with an empty shape list issues no binding call and
\* leaves the bindings as they were, for either value of the flag; it returns
\* success unless the driver failed a texture creation of the delta.
C3_EmptyFrame ==
    EmptyFrame =>
        /\ NoBindingCalls
        /\ dev = call.pre_dev
        /\ call.result = IF call.fault.api \in {"CreateTexture2D", "CreateShaderResourceView"}
                         THEN "Err" ELSE "Ok"

\* an empty frame that carried a texture, on a renderer that preserves state
C3_Witness ==
    /\ EmptyFrame /\ restore_state_after_render
    /\ call.result = "Ok"
    /\ call.in.egui_output.textures_delta.set # <<>>

\* the upserts of delta d that are whole updates of id tid
WholesOf(d, tid) == {i \in 1..Len(d.set) : d.set[i].id = tid /\ is_whole(d.set[i].delta)}

Freed(d) == {d.free[i] : i \in 1..Len(d.free)}

\* C4: after a texture delta was applied with success, no id of its free set
\* resolves, whatever the pool held and whatever the delta upserts.
C4_FreedIdsUnresolved ==
    (Updated /\ call.result = "Ok")
        => \A tid \in Freed(call.delta) : get_srv(pool, tid) = NULL

\* a delta that frees an id the pool held and that it also gives a whole update
C4_Witness ==
    /\ Updated /\ call.result = "Ok"
    /\ \E tid \in Freed(call.delta) :
            tid \in DOMAIN call.pre_pool /\ WholesOf(call.delta, tid) # {}

\* the texture the i-th upsert of the delta created: the textures made are
\* listed in the order of the whole updates
MadeBy(i) ==
    call.made[Cardinality({j \in 1..i : is_whole(call.delta.set[j].delta)})]

\* the entry of tid is the texture upsert i created of its image
InstalledFrom(tid, i) ==
    /\ get_srv(pool, tid) # NULL
    /\ pool[tid].tex = MadeBy(i)
    /\ pool[tid].srv = Obj("srv", MadeBy(i).ref)
    /\ pool[tid].width = width(call.delta.set[i].delta.image)

\* C5 as stated: after a delta was applied with success, the id of every
\* whole update that the delta does not free resolves to a view of the
\* texture created from that update's image.
C5_EveryWholeUpdate ==
    (Updated /\ call.result = "Ok")
        => \A tid \in TextureIds \ Freed(call.delta) :
            \A i \in WholesOf(call.delta, tid) : InstalledFrom(tid, i)

\* C5: after a delta was applied with success, every id with a whole update
\* that the delta does not free resolves to a view of the texture created from
\* the image of the last whole update of that id in the delta; its cached
\* pixels are those of the image when no partial update follows.
C5_LastWholeUpdate ==
    (Updated /\ call.result = "Ok")
        => \A tid \in TextureIds \ Freed(call.delta) :
            \A i \in WholesOf(call.delta, tid) :
                (\A j \in WholesOf(call.delta, tid) : j <= i)
                    => /\ InstalledFrom(tid, i)
                       /\ (\A j \in (i + 1)..Len(call.delta.set) : call.delta.set[j].id # tid)
                            => LET image == call.delta.set[i].delta.image
                               IN  pool[tid].pixels =
                                     IF image.kind = "Color" THEN image.pixels
                                     ELSE [k \in 1..Len(image.pixels) |-> FontPixel(image.pixels[k])]

\* a whole update that replaces the texture the pool held under the id
C5_Witness ==
    /\ Updated /\ call.result = "Ok"
    /\ \E tid \in DOMAIN call.pre_pool \ Freed(call.delta) :
            /\ WholesOf(call.delta, tid) # {}
            /\ pool[tid].width # call.pre_pool[tid].width

\* upsert i is the last upsert of its id in the delta
LastOfId(i) ==
    \A j \in (i + 1)..Len(call.delta.set) : call.delta.set[j].id # call.delta.set[i].id

\* round(a * 255) to the nearest integer, for the coverage a = n/d in 0..1
Round255(a) == (2 * a[1] * 255 + a[2]) \div (2 * a[2])

RoundedPixel(a) == <<255, 255, 255, Round255(a)>>

\* the cached pixel of texture t at column x, row y
PixelAt(t, x, y) == t.pixels[y * t.width + x + 1]

\* C6: a coverage value a is cached as the RGBA pixel (255, 255, 255,
\* round(a * 255)), rounded to the nearest integer, both by a whole update and
\* by a partial update.
C6_CoverageRounded ==
    (Updated /\ call.result = "Ok")
        => \A i \in 1..Len(call.delta.set) :
            LET u == call.delta.set[i]
                f == u.delta.image
            IN  (f.kind = "Font" /\ LastOfId(i) /\ u.id \in DOMAIN pool)
                    => IF is_whole(u.delta)
                       THEN pool[u.id].pixels =
                                [k \in 1..Len(f.pixels) |-> RoundedPixel(f.pixels[k])]
                       ELSE \A x \in 0..(width(f) - 1), y \in 0..(height(f) - 1) :
                                PixelAt(pool[u.id], unwrap(u.delta.pos)[1] + x,
                                                    unwrap(u.delta.pos)[2] + y)
                                    = RoundedPixel(f.pixels[y * width(f) + x + 1])

\* the window of a partial update lies inside the cached image of texture t
InBounds(t, d) ==
    /\ unwrap(d.pos)[1] + width(d.image) <= t.width
    /\ unwrap(d.pos)[2] + height(d.image) <= Len(t.pixels) \div t.width

\* column x, row y of texture t lies in the window of the partial update d
InWindow(d, x, y) ==
    /\ unwrap(d.pos)[1] <= x /\ x < unwrap(d.pos)[1] + width(d.image)
    /\ unwrap(d.pos)[2] <= y /\ y < unwrap(d.pos)[2] + height(d.image)

\* the delta starts with an in-bounds partial update of coverage values for an
\* id the pool holds, and neither upserts that id again nor frees it
PartialApplied ==
    /\ Updated /\ call.result = "Ok"
    /\ Len(call.delta.set) >= 1
    /\ ~is_whole(call.delta.set[1].delta)
    /\ call.delta.set[1].delta.image.kind = "Font"
    /\ call.delta.set[1].id \in DOMAIN call.pre_pool \ Freed(call.delta)
    /\ LastOfId(1)
    /\ InBounds(call.pre_pool[call.delta.set[1].id], call.delta.set[1].delta)

\* C7: an in-bounds partial update of w x h coverage values at (x, y) writes
\* exactly the cached pixels of columns x..x+w-1 and rows y..y+h-1, each the
\* conversion of the sub-image pixel at the same offset, and leaves the other
\* pixels, the recorded width, the resource and the other entries as they were.
C7_PartialWindow ==
    PartialApplied =>
        LET tid == call.delta.set[1].id
            d == call.delta.set[1].delta
            old == call.pre_pool[tid]
            new == pool[tid]
        IN  /\ new.width = old.width
            /\ new.tex = old.tex /\ new.srv = old.srv
            /\ Len(new.pixels) = Len(old.pixels)
            /\ \A x \in 0..(old.width - 1), y \in 0..((Len(old.pixels) \div old.width) - 1) :
                    PixelAt(new, x, y) =
                        IF InWindow(d, x, y)
                        THEN FontPixel(d.image.pixels[(y - unwrap(d.pos)[2]) * width(d.image)
                                                        + (x - unwrap(d.pos)[1]) + 1])
                        ELSE PixelAt(old, x, y)
            /\ Len(call.delta.set) = 1
                    => /\ DOMAIN pool = DOMAIN call.pre_pool \ Freed(call.delta)
                       /\ \A other \in DOMAIN pool \ {tid} : pool[other] = call.pre_pool[other]

\* a patch written into the second row of a 3 x 2 image while the pool holds
\* another texture
C7_Witness ==
    /\ PartialApplied
    /\ Len(call.delta.set) = 1
    /\ pool[call.delta.set[1].id].pixels # call.pre_pool[call.delta.set[1].id].pixels
    /\ DOMAIN pool = TextureIds

\* upsert i of the delta is a partial update whose id the pool does not hold
\* when the upsert is reached
UnknownPartial(i) ==
    /\ ~is_whole(call.delta.set[i].delta)
    /\ call.delta.set[i].id \notin DOMAIN call.pre_pool
    /\ \A j \in 1..(i - 1) :
            call.delta.set[j].id = call.delta.set[i].id => ~is_whole(call.delta.set[j].delta)

\* the sequence s without its i-th element
Without(s, i) == [k \in 1..(Len(s) - 1) |-> IF k < i THEN s[k] ELSE s[k + 1]]

\* C8: a partial update for an id the pool does not hold changes nothing and
\* raises no error, whatever the kind of its image: the call ends as it would
\* without that upsert, the rest of the delta being processed.
C8_UnknownPartialIgnored ==
    Updated =>
        \A i \in 1..Len(call.delta.set) :
            UnknownPartial(i) =>
                /\ \E rest \in {update(call.pre_pool, [dev |-> dev, log |-> <<>>],
                                       [set |-> Without(call.delta.set, i),
                                        free |-> call.delta.free], call.fault)} :
                        /\ call.result = rest.result
                        /\ pool = rest.pool
                        /\ call.log = rest.cx.log
                /\ (Len(call.delta.set) = 1 /\ call.delta.free = <<>>)
                        => (call.result = "Ok" /\ pool = call.pre_pool /\ call.log = <<>>)

\* an RGBA patch for an unknown id, followed by a whole update that is applied
C8_Witness ==
    /\ Updated /\ call.result = "Ok"
    /\ Len(call.delta.set) = 2
    /\ UnknownPartial(1)
    /\ call.delta.set[1].delta.image.kind = "Color"
    /\ is_whole(call.delta.set[2].delta)
    /\ call.delta.set[2].id \in DOMAIN pool \ DOMAIN call.pre_pool

\* a shape that tessellates to a mesh of whole triangles
Drawable(s) ==
    /\ s.shape.type = "Mesh"
    /\ Len(s.shape.indices) > 0
    /\ Len(s.shape.indices) % 3 = 0

\* a shape whose mesh the renderer has to drop
Dropped(s) == s.shape.type = "Mesh" /\ ~Drawable(s)

\* the shapes of the call that are to be drawn, in the order of the frame
Survivors == SelectSeq(call.in.egui_output.shapes, Drawable)

\* the calls draw_mesh issues once per mesh
PerMeshCalls == {"IASetVertexBuffers", "IASetIndexBuffer", "RSSetScissorRects", "DrawIndexed"}

\* C9: a mesh with no index or with an index count that is not a multiple of
\* 3 gets no draw, no buffer, no scissor and no texture bind, and does not make
\* the call fail; the other meshes of the frame are drawn.
C9_DroppedMeshes ==
    Rendered =>
        /\ \A name \in PerMeshCalls : Count(call.log, name) <= Len(Survivors)
        /\ Count(call.log, "PSSetShaderResources") <= Len(Survivors)
        /\ Count(call.log, "CreateBuffer") <= 2 * Len(Survivors)
        /\ call.fault = NoFault => call.result = "Ok"
        /\ RenderedFrame =>
                /\ \A name \in PerMeshCalls : Count(call.log, name) = Len(Survivors)
                /\ Count(call.log, "CreateBuffer") = 2 * Len(Survivors)
                /\ Len(call.draws) = Len(Survivors)

\* a frame of a mesh with an incomplete triangle and a mesh that is drawn
C9_Witness ==
    /\ RenderedFrame
    /\ \E i \in 1..Len(call.in.egui_output.shapes) :
            /\ Dropped(call.in.egui_output.shapes[i])
            /\ Len(call.in.egui_output.shapes[i].shape.indices) % 3 # 0
    /\ Len(call.draws) = 1

\* the scissor rectangle of a clip rectangle in points: each edge scaled to
\* pixels and cut to an integer
ScissorFor(clip_rect, in) ==
    LET px(a) == (a[1] * in.scale_factor[1] * in.zoom_factor[1])
                    \div (a[2] * in.scale_factor[2] * in.zoom_factor[2])
    IN  [left |-> px(clip_rect.min[1]), top |-> px(clip_rect.min[2]),
         right |-> px(clip_rect.max[1]), bottom |-> px(clip_rect.max[2])]

\* draw k was issued with the buffers and the scissor rectangle of shape s
DrawOf(k, s) ==
    LET d == call.draws[k]
        vb == d.dev.vertex_buffer.buffer
        ib == d.dev.index_buffer.buffer
    IN  /\ d.index_count = Len(s.shape.indices)
        /\ ib.kind = "index_buffer" /\ ib.ref = s.shape.indices
        /\ vb.kind = "vertex_buffer"
        /\ Len(vb.ref) = Len(s.shape.vertices)
        /\ \A v \in 1..Len(vb.ref) :
                /\ vb.ref[v].uv = s.shape.vertices[v].uv
                /\ vb.ref[v].color.rgba_of = s.shape.vertices[v].color
        /\ d.dev.scissor_rects = <<ScissorFor(s.clip_rect, call.in)>>

\* C10: in a render call that returns success the indexed draws are, in
\* order, the meshes of the frame left by the filters (callbacks, empty meshes
\* and meshes with an incomplete triangle removed), one draw per mesh, issued
\* with the mesh's index count and under its vertex buffer, index buffer and
\* scissor rectangle.
C10_DrawSequence ==
    RenderedFrame =>
        /\ Len(call.draws) = Len(Survivors)
        /\ Count(call.log, "DrawIndexed") = Len(Survivors)
        /\ \A k \in 1..Len(Survivors) : DrawOf(k, Survivors[k])

\* two different meshes drawn in one frame
C10_Witness ==
    /\ RenderedFrame
    /\ Len(call.draws) = 2
    /\ call.draws[1].index_count # call.draws[2].index_count

\* the mesh whose buffer creation the driver fails: draw_mesh creates the
\* index buffer, then the vertex buffer
FailedMesh == (call.fault.n + 1) \div 2

BufferFailed == Rendered /\ call.fault.api = "CreateBuffer"

\* C11: when the creation of the index or vertex buffer of the k-th mesh to
\* draw fails, render returns the error; the draws of meshes 1..k-1 were
\* issued and stand, there is no draw for mesh k or a later one, and the
\* failed creation is not tried again.
C11_BufferFailureAborts ==
    BufferFailed =>
        /\ call.result = "Err"
        /\ Len(call.draws) = FailedMesh - 1
        /\ Count(call.log, "DrawIndexed") = FailedMesh - 1
        /\ \A j \in 1..(FailedMesh - 1) : DrawOf(j, Survivors[j])
        /\ Count(call.log, "CreateBuffer") = call.fault.n
        /\ call.log[Len(call.log)] = "CreateBuffer"

\* the vertex buffer of the second mesh fails after the first mesh was drawn
C11_Witness ==
    /\ BufferFailed
    /\ call.fault.n = 4
    /\ Len(call.draws) = 1
    /\ Len(Survivors) = 2

DeltaFailed ==
    Rendered /\ call.fault.api \in {"CreateTexture2D", "CreateShaderResourceView"}

\* C12: when the texture delta cannot be applied, render returns the error
\* with no draw, no capture of the pipeline state and no binding changed,
\* whatever the shape list.
C12_DeltaFailureFirst ==
    DeltaFailed =>
        /\ call.result = "Err"
        /\ call.draws = <<>>
        /\ NoBindingCalls
        /\ dev = call.pre_dev

\* a frame with a mesh to draw, on a renderer that preserves state, whose
\* texture cannot be created
C12_Witness ==
    /\ DeltaFailed
    /\ restore_state_after_render
    /\ Len(Survivors) > 0
    /\ call.pre_dev = SceneDevice

\* the shader resource bound at slot 0 when draw k began
SlotBefore(k) ==
    IF k = 1 THEN call.pre_dev.ps_shader_resource
    ELSE call.draws[k - 1].dev.ps_shader_resource

\* the texture of the k-th mesh to draw does not resolve in the pool
Unresolved(k) == Survivors[k].shape.texture_id \notin DOMAIN pool

\* C13: a mesh whose texture id does not resolve is drawn under its own
\* vertex buffer, index buffer and scissor rectangle; only the texture bind is
\* left out, so slot 0 keeps what was bound before the mesh, and the call does
\* not fail for it.
C13_UnresolvedTexture ==
    Rendered =>
        /\ \A k \in 1..Len(call.draws) :
                /\ DrawOf(k, Survivors[k])
                /\ call.draws[k].dev.ps_shader_resource =
                        IF Unresolved(k) THEN SlotBefore(k)
                        ELSE pool[Survivors[k].shape.texture_id].srv
        /\ Count(call.log, "PSSetShaderResources")
                = Cardinality({k \in 1..Len(call.draws) : ~Unresolved(k)})
        /\ call.fault = NoFault => call.result = "Ok"

\* a mesh with a texture of the pool, then a mesh with an unknown texture,
\* which is drawn under the texture of the first
C13_Witness ==
    /\ RenderedFrame
    /\ Len(call.draws) = 2
    /\ ~Unresolved(1) /\ Unresolved(2)
    /\ call.draws[2].dev.ps_shader_resource = call.draws[1].dev.ps_shader_resource
    /\ call.pre_dev = SceneDevice

\* C14: at every indexed draw of render the rasterizer state bound on the
\* device is one with the scissor test enabled, so that the scissor rectangle
\* of the mesh bounds what the draw writes.
C14_ScissorEnabled ==
    Rendered =>
        \A k \in 1..Len(call.draws) :
            /\ RasterizerDescOf(call.draws[k].dev.rasterizer_state) # None
            /\ unwrap(RasterizerDescOf(call.draws[k].dev.rasterizer_state)).ScissorEnable

\* C15: when a render call returns, with success or with an error, the
\* renderer holds no state block, hence no reference to the pipeline objects
\* the caller had bound before the call.
C15_NoSnapshotHeld ==
    (Rendered /\ pc = "Returned") => state_block = None

\* upsert i of the delta is reached with no failure before it: no driver
\* fault, and before it only whole updates and partial updates of ids the
\* pool has never held
ReachedUnfailed(i) ==
    /\ call.fault = NoFault
    /\ \A j \in 1..(i - 1) : is_whole(call.delta.set[j].delta) \/ UnknownPartial(j)

\* upsert i is a partial update with an RGBA image for an id the pool holds
\* when the upsert is reached
ColorPartial(i) ==
    /\ ~is_whole(call.delta.set[i].delta)
    /\ call.delta.set[i].delta.image.kind = "Color"
    /\ ~UnknownPartial(i)
    /\ ReachedUnfailed(i)

\* C16: a partial update with an RGBA image for an id of the pool makes the
\* program panic at that upsert: it is not returned as an error, not applied
\* and not skipped.
C16_ColorPartialPanics ==
    Updated =>
        \A i \in 1..Len(call.delta.set) :
            ColorPartial(i) =>
                /\ call.result = "Panic"
                /\ pc = "Panicked"
                /\ Count(call.log, "UpdateSubresource") = 0
                /\ Count(call.log, "CreateTexture2D")
                        = Cardinality({j \in 1..(i - 1) : is_whole(call.delta.set[j].delta)})

\* an RGBA patch for a texture the pool held before the call
C16_Witness ==
    /\ Updated
    /\ call.result = "Panic"
    /\ Len(call.delta.set) = 2
    /\ ColorPartial(1)
    /\ call.delta.set[1].id \in DOMAIN call.pre_pool
    /\ is_whole(call.delta.set[2].delta)

\* equality of the rationals a and b, given as <<numerator, denominator>>
SameRational(a, b) == a[1] * b[2] = b[1] * a[2]

\* pos * zoom / (physical / scale) * 2 as one fraction
TwiceRelative(pos, physical, in) ==
    <<2 * pos[1] * in.zoom_factor[1] * in.scale_factor[1],
      pos[2] * in.zoom_factor[2] * in.scale_factor[2] * physical>>

\* the coordinate p is half of the logical size physical / scale
AtCentre(p, physical, in) ==
    2 * p[1] * in.scale_factor[1] = physical * in.scale_factor[2] * p[2]

\* C17: the vertex buffer of a draw holds, for the vertex at pos,
\* ndc.x = pos.x * zoom / logicalWidth * 2 - 1 and
\* ndc.y = 1 - pos.y * zoom / logicalHeight * 2, where the logical size is the
\* physical size over the scale factor; with zoom = 1 the centre of the
\* logical frame is at (0, 0), for every target size and scale factor.
C17_VertexTransform ==
    Rendered =>
        \A k \in 1..Len(call.draws) :
            \A v \in 1..Len(Survivors[k].shape.vertices) :
                LET pos == Survivors[k].shape.vertices[v].pos
                    ndc == call.draws[k].dev.vertex_buffer.buffer.ref[v].pos
                    size == call.in.render_target.size
                    tx == TwiceRelative(pos[1], size[1], call.in)
                    ty == TwiceRelative(pos[2], size[2], call.in)
                IN  /\ SameRational(ndc[1], <<tx[1] - tx[2], tx[2]>>)
                    /\ SameRational(ndc[2], <<ty[2] - ty[1], ty[2]>>)
                    /\ (/\ call.in.zoom_factor = <<1, 1>>
                        /\ AtCentre(pos[1], size[1], call.in)
                        /\ AtCentre(pos[2], size[2], call.in))
                            => (ndc[1][1] = 0 /\ ndc[2][1] = 0)

\* a vertex at the centre of a 5 x 3 target at scale 1.25 and zoom 1
C17_Witness ==
    /\ RenderedFrame
    /\ call.in.render_target.size = <<5, 3>>
    /\ call.in.scale_factor = <<5, 4>>
    /\ call.in.zoom_factor = <<1, 1>>
    /\ Len(call.draws) = 1
    /\ \E v \in 1..Len(Survivors[1].shape.vertices) :
            /\ AtCentre(Survivors[1].shape.vertices[v].pos[1], 5, call.in)
            /\ AtCentre(Survivors[1].shape.vertices[v].pos[2], 3, call.in)
            /\ call.draws[1].dev.vertex_buffer.buffer.ref[v].pos[1][1] = 0

\* C18: with state preservation enabled, a render call that fails at a buffer
\* creation, after the state block was captured, returns with every captured
\* slot category at its value of before the call.
C18_RestoredOnError ==
    (BufferFailed /\ restore_state_after_render)
        => \A f \in SnapshotCategories : dev[f] = call.pre_dev[f]

\* the position of upsert i among the whole updates of the delta
WholeRank(i) == Cardinality({j \in 1..i : is_whole(call.delta.set[j].delta)})

\* the whole updates of tid in the delta whose texture was created
SucceededWholes(tid) ==
    {i \in WholesOf(call.delta, tid) : WholeRank(i) <= Len(call.made)}

Max(S) == CHOOSE x \in S : \A y \in S : y <= x

\* C19: step by step from the empty pool, an id resolves after a delta if and
\* only if it resolved before or a whole update of the delta installed it,
\* and the delta has not freed it; the view is that of the texture of the most
\* recent whole update for the id, and no two ids share a texture.
C19_ResolveIffInstalled ==
    Updated =>
        \A tid \in TextureIds :
            /\ get_srv(pool, tid) # NULL
                <=> /\ tid \in DOMAIN call.pre_pool \/ SucceededWholes(tid) # {}
                    /\ ~(call.result = "Ok" /\ tid \in Freed(call.delta))
            /\ tid \in DOMAIN pool =>
                /\ pool[tid].srv = Obj("srv", pool[tid].tex.ref)
                /\ pool[tid].tex = IF SucceededWholes(tid) # {}
                                   THEN MadeBy(Max(SucceededWholes(tid)))
                                   ELSE call.pre_pool[tid].tex
                /\ \A other \in DOMAIN pool \ {tid} : pool[other].tex # pool[tid].tex

\* a delta that installs one id and frees the other, which the pool held
C19_Witness ==
    /\ Updated /\ call.result = "Ok"
    /\ \E tid \in DOMAIN call.pre_pool \ DOMAIN pool :
            \E new \in DOMAIN pool \ DOMAIN call.pre_pool : new # tid

\* the upserts of set from the i-th on, each applied as a delta of its own
\* after outcome r
RECURSIVE OneByOne(_, _, _)
OneByOne(r, set, i) ==
    IF i > Len(set) \/ r.result # "Ok" THEN r
    ELSE OneByOne(update(r.pool, r.cx, [set |-> <<set[i]>>, free |-> <<>>], NoFault),
                  set, i + 1)

\* the frees of the delta applied as a delta of their own after outcome r
ThenFrees(r, free) ==
    IF r.result # "Ok" THEN r
    ELSE update(r.pool, r.cx, [set |-> <<>>, free |-> free], NoFault)

\* the delta is a whole update of an id followed by a partial update of
\* coverage values for the same id, which it does not free
WholeThenPartial ==
    /\ Updated /\ call.result = "Ok"
    /\ Len(call.delta.set) = 2
    /\ is_whole(call.delta.set[1].delta)
    /\ ~is_whole(call.delta.set[2].delta)
    /\ call.delta.set[2].id = call.delta.set[1].id
    /\ call.delta.set[2].delta.image.kind = "Font"
    /\ call.delta.set[1].id \notin Freed(call.delta)

\* C20: a delta ends as its upserts applied one after another in the order
\* of submission, followed by its frees: a partial update after a whole update
\* of the same id is applied to the texture just created, and no free takes
\* effect before the last upsert.
C20_UpsertsInOrderThenFrees ==
    (Updated /\ call.fault = NoFault) =>
        /\ \E r \in {ThenFrees(OneByOne(Step("Ok", [dev |-> dev, log |-> <<>>],
                                             call.pre_pool, <<>>),
                                        call.delta.set, 1),
                               call.delta.free)} :
                /\ call.result = r.result
                /\ pool = r.pool
                /\ call.log = r.cx.log
        /\ WholeThenPartial =>
                LET tid == call.delta.set[1].id
                    d == call.delta.set[2].delta
                IN  /\ pool[tid].tex = MadeBy(1)
                    /\ pool[tid].width = width(call.delta.set[1].delta.image)
                    /\ \A x \in 0..(width(d.image) - 1), y \in 0..(height(d.image) - 1) :
                            PixelAt(pool[tid], unwrap(d.pos)[1] + x, unwrap(d.pos)[2] + y)
                                = FontPixel(d.image.pixels[y * width(d.image) + x + 1])

\* a whole update then a patch of the same id, in a delta that frees the
\* other id of the pool
C20_Witness ==
    /\ WholeThenPartial
    /\ call.fault = NoFault
    /\ Count(call.log, "UpdateSubresource") = 1
    /\ \E tid \in Freed(call.delta) : tid \in DOMAIN call.pre_pool

\* the ids the delta of the call names, in an upsert or in a free
Named(d) == {d.set[i].id : i \in 1..Len(d.set)} \cup Freed(d)

\* C21: a delta changes only the entries of the ids it upserts or frees:
\* every other entry keeps its resource, view, cached pixels and width,
\* however the call ends; a free of an id the pool does not hold changes
\* nothing and is no error.
C21_OtherEntriesKept ==
    Updated =>
        /\ \A tid \in DOMAIN call.pre_pool \ Named(call.delta) :
                tid \in DOMAIN pool /\ pool[tid] = call.pre_pool[tid]
        /\ DOMAIN pool \subseteq DOMAIN call.pre_pool \cup Named(call.delta)
        /\ (call.delta.set = <<>> /\ Freed(call.delta) \cap DOMAIN call.pre_pool = {})
                => (call.result = "Ok" /\ pool = call.pre_pool /\ call.log = <<>>)

\* a delta that only frees an id the pool does not hold, while the pool
\* holds another texture
C21_Witness ==
    /\ Updated /\ call.result = "Ok"
    /\ call.delta.set = <<>>
    /\ Freed(call.delta) # {}
    /\ Freed(call.delta) \cap DOMAIN call.pre_pool = {}
    /\ DOMAIN pool # {}

\* C22: a texture whose most recent whole update was an RGBA image has that
\* image as its cached pixels: no partial update is applied to it.
C22_RgbaNeverPatched ==
    (Updated /\ call.result = "Ok")
        => \A tid \in DOMAIN pool :
            \A i \in WholesOf(call.delta, tid) :
                (/\ \A j \in WholesOf(call.delta, tid) : j <= i
                 /\ call.delta.set[i].delta.image.kind = "Color")
                    => pool[tid].pixels = call.delta.set[i].delta.image.pixels

\* C23: once render has returned, with success or with an error, no vertex
\* or index buffer the renderer created for a mesh is still bound on the
\* device.
C23_NoBufferLeftBound ==
    (Rendered /\ pc = "Returned")
        => /\ dev.vertex_buffer.buffer.kind # "vertex_buffer"
           /\ dev.index_buffer.buffer.kind # "index_buffer"

\* the position of the first call of `name` in the log of the call, 0 if none
FirstCall(name) ==
    IF Count(call.log, name) = 0 THEN 0
    ELSE CHOOSE i \in 1..Len(call.log) :
            call.log[i] = name /\ \A j \in 1..(i - 1) : call.log[j] # name

\* the call read the pipeline state into a state block
CapturedInCall == Count(call.log, "IAGetPrimitiveTopology") > 0

\* the call applied a state block: the topology was set by setup and again
AppliedInCall == Count(call.log, "IASetPrimitiveTopology") = 2

\* C24: a state block that render applies was captured in the same call,
\* before setup, so what it puts back is the state of before this call and
\* never a block left by an earlier call; with state preservation disabled
\* no state block is ever captured, held or applied.
C24_AppliesOwnSnapshot ==
    Rendered =>
        /\ Count(call.log, "IASetPrimitiveTopology") <= 2
        /\ AppliedInCall =>
                /\ restore_state_after_render
                /\ Count(call.log, "IAGetPrimitiveTopology") = 1
                /\ FirstCall("IAGetPrimitiveTopology") < FirstCall("IASetPrimitiveTopology")
                /\ state_block # None
                /\ \A f \in SnapshotCategories :
                        unwrap(state_block)[f] = call.pre_dev[f] /\ dev[f] = call.pre_dev[f]
        /\ ~restore_state_after_render =>
                /\ ~CapturedInCall /\ ~AppliedInCall
                /\ state_block = None /\ call.pre_block = None

\* a frame rendered by a renderer that still held the state block of an
\* earlier call, captured under other bindings
C24_Witness ==
    /\ RenderedFrame /\ AppliedInCall
    /\ call.pre_block # None
    /\ call.pre_block # state_block
    /\ call.pre_dev = DefaultDevice

\* the update of the call returned the error of a texture creation
CreationFailed ==
    /\ Updated /\ call.result = "Err"
    /\ call.fault.api \in {"CreateTexture2D", "CreateShaderResourceView"}

\* the whole update whose texture could not be created: the one after the
\* textures that were made
FailedUpsert ==
    CHOOSE i \in 1..Len(call.delta.set) :
        is_whole(call.delta.set[i].delta) /\ WholeRank(i) = Len(call.made) + 1

\* C25: when the creation of the texture of a whole update fails, update
\* returns the error at once: the pool is what the upserts before the failing
\* one made of it, so the entry of the failing id is the one it had before
\* that upsert, no later upsert is applied and no free is performed.
C25_CreationFailureStops ==
    CreationFailed =>
        /\ \E r \in {OneByOne(Step("Ok", [dev |-> dev, log |-> <<>>], call.pre_pool, <<>>),
                              SubSeq(call.delta.set, 1, FailedUpsert - 1), 1)} :
                /\ r.result = "Ok"
                /\ pool = r.pool
                /\ Len(call.log) > Len(r.cx.log)
                /\ SubSeq(call.log, 1, Len(r.cx.log)) = r.cx.log
                /\ \A k \in (Len(r.cx.log) + 1)..Len(call.log) :
                        call.log[k] \in {"CreateTexture2D", "CreateShaderResourceView"}
        /\ call.log[Len(call.log)] = call.fault.api
        /\ \A tid \in Freed(call.delta) \cap DOMAIN call.pre_pool : tid \in DOMAIN pool

\* the second whole update of a delta fails: the first stays applied, the
\* entry of the failing id is the old one and the free is not performed
C25_Witness ==
    /\ CreationFailed
    /\ Len(call.delta.set) = 2
    /\ FailedUpsert = 2
    /\ call.delta.set[1].id # call.delta.set[2].id
    /\ call.delta.set[1].id \in DOMAIN pool
    /\ call.delta.set[2].id \in DOMAIN call.pre_pool
    /\ pool[call.delta.set[2].id] = call.pre_pool[call.delta.set[2].id]
    /\ call.delta.set[2].id \in Freed(call.delta)

\* C26: after whole updates and in-bounds partial updates that all
\* succeeded, the texels of every texture of the pool are its cached pixels,
\* pixel for pixel.
C26_GpuEqualsCache ==
    \A tid \in DOMAIN pool : pool[tid].gpu = pool[tid].pixels

====
